---- MODULE Spec2Model ----
(***************************************************************************)
(* DPLL satisfiability solver of sattools/solvers.py: the formula analysis *)
(* functions of class Solver and the recursive search DPLL.backtrack, as a *)
(* state machine over an explicit call stack.                              *)
(***************************************************************************)
EXTENDS Integers, Sequences, FiniteSets, TLC

\* ------------------------------------------------------------------ bounds
\* Variables are 1..NumVars; a literal is a variable or its negation.
NumVars == 2
\* Most clauses of an input formula of the search.
MaxClauses == 3
\* Most literals of a clause of an input formula.
MaxClauseLen == 2
\* Most nested backtrack frames before the interpreter raises RecursionError.
RecursionLimit == 4

Vars == 1..NumVars
Lits == {l \in (0 - NumVars)..NumVars : l # 0}

\* ----------------------------------------------------------------- helpers
Range(s) == {s[i] : i \in DOMAIN s}

RECURSIVE Perms(_)
\* Every order in which a Python set can be iterated.
Perms(S) ==
    IF S = {} THEN {<<>>}
    ELSE UNION {{<<x>> \o p : p \in Perms(S \ {x})} : x \in S}

RECURSIVE SortedSeq(_)
\* The ascending list of a set of integers.
SortedSeq(S) ==
    IF S = {} THEN <<>>
    ELSE LET m == CHOOSE x \in S : \A y \in S : x <= y
         IN <<m>> \o SortedSeq(S \ {m})

RECURSIVE ListOf(_)
\* One list holding the elements of a set.
ListOf(S) ==
    IF S = {} THEN <<>>
    ELSE LET x == CHOOSE y \in S : TRUE
         IN <<x>> \o ListOf(S \ {x})

RECURSIVE SubsetsUpTo(_, _)
\* The subsets of S with at most k elements.
SubsetsUpTo(S, k) ==
    IF k = 0 THEN {{}}
    ELSE LET T == SubsetsUpTo(S, k - 1)
         IN T \cup {t \cup {x} : t \in T, x \in S}

\* ------------------------------------------------------- formula analysis
RECURSIVE flatten_list(_)
flatten_list(cnf) ==
    IF cnf = <<>> THEN <<>> ELSE Head(cnf) \o flatten_list(Tail(cnf))

determine_literals(cnf) == Range(flatten_list(cnf))

\* A slip: the filter on the negation is left out, every literal counts as pure.
determine_pure_literals_unfiltered(cnf) == determine_literals(cnf)

\* A slip: the test on the negation is inverted, the literals kept are those
\* whose negation is present.
determine_pure_literals_inverted(cnf) ==
    LET unique_literals == determine_literals(cnf)
    IN {ul \in unique_literals : (0 - ul) \in unique_literals}

determine_pure_literals(cnf) ==
    LET unique_literals == determine_literals(cnf)
    IN {ul \in unique_literals : (0 - ul) \notin unique_literals}

\* A slip: len >= 1 for len == 1, every non-empty clause counts as a unit.
determine_unit_clauses_nonempty(cnf) ==
    LET literals == SelectSeq(cnf, LAMBDA clause : Len(clause) >= 1)
    IN Range(flatten_list(literals))

determine_unit_clauses(cnf) ==
    LET literals == SelectSeq(cnf, LAMBDA clause : Len(clause) = 1)
    IN Range(flatten_list(literals))

\* A slip: clauses are dropped by variable, those holding the negation too.
remove_clauses_with_variable(cnf, literal) ==
    SelectSeq(cnf, LAMBDA clause :
        literal \notin Range(clause) /\ (0 - literal) \notin Range(clause))

\* A slip: "not in" written as "in", the clauses holding the literal are kept.
remove_clauses_without_literal(cnf, literal) ==
    SelectSeq(cnf, LAMBDA clause : literal \in Range(clause))

remove_clauses_with_literal(cnf, literal) ==
    SelectSeq(cnf, LAMBDA clause : literal \notin Range(clause))

\* A slip: a clause shortened to nothing is dropped instead of kept empty.
shorten_clauses_dropping_empty(cnf, literal) ==
    SelectSeq([i \in 1..Len(cnf) |-> SelectSeq(cnf[i], LAMBDA c : c # literal)],
              LAMBDA clause : Len(clause) > 0)

shorten_clauses_with_literal(cnf, literal) ==
    [i \in 1..Len(cnf) |-> SelectSeq(cnf[i], LAMBDA c : c # literal)]

\* A slip: the literal itself is shortened away instead of its negation.
remove_literal_sign_slip(cnf, literal) ==
    shorten_clauses_with_literal(
        remove_clauses_with_literal(cnf, literal), literal)

remove_literal(cnf, literal) ==
    shorten_clauses_with_literal(
        remove_clauses_with_literal(cnf, literal), 0 - literal)

RECURSIVE RemoveAll(_, _)
\* The loop of simplify: remove_literal for each literal, in iteration order.
RemoveAll(cnf, order) ==
    IF order = <<>> THEN cnf
    ELSE RemoveAll(remove_literal(cnf, Head(order)), Tail(order))

\* The literals simplify removes.
remove_literals(cnf) ==
    determine_unit_clauses(cnf) \cup determine_pure_literals(cnf)

\* simplify, with the order in which the set remove_literals is iterated.
simplify(cnf, order) ==
    [cnf |-> RemoveAll(cnf, order), removed |-> remove_literals(cnf)]

\* ------------------------------------------------------------ input space
\* Clauses of up to n distinct literals.
Clauses(n) == {SortedSeq(c) : c \in SubsetsUpTo(Lits, n)}

\* In how many clauses of F variable v occurs, in either polarity.
Occurrences(F, v) ==
    Cardinality({c \in F : v \in Range(c) \/ (0 - v) \in Range(c)})

\* Formulas of up to m distinct clauses of up to n literals. The solver never
\* compares variables, so of the formulas that differ only in the names of
\* their variables it is enough to take those whose variables are numbered by
\* falling number of occurrences.
FormulasOf(m, n) ==
    {ListOf(F) : F \in {G \in SubsetsUpTo(Clauses(n), m) :
        \A v \in 1..(NumVars - 1) : Occurrences(G, v) >= Occurrences(G, v + 1)}}

\* Input formulas of the search.
Formulas == FormulasOf(MaxClauses, MaxClauseLen)

\* The formula with every clause listed twice and every literal written twice
\* in its clause: lists may repeat their elements.
Twice(f) == [i \in 1..Len(f) |-> f[i] \o f[i]] \o [i \in 1..Len(f) |-> f[i] \o f[i]]

\* Input formulas of the formula analysis functions.
FnFormulas == Formulas \cup {Twice(f) : f \in Formulas}

\* ------------------------------------------------------------------ state
VARIABLES
    pc,               \* where solve is: constructed, running, done, or an exception
    cnf,              \* self.cnf
    literals,         \* self.literals
    satisfied,        \* self.satisfied
    solution,         \* self.solution, as the set of the elements of the list
    backtrack_count,  \* self.backtrack_count
    recursion_count,  \* self.recursion_count
    stack,            \* the live backtrack calls, the innermost last
    ret,              \* the value the last finished backtrack call returned
    fn_pc,            \* formula analysis on its own: input, removed, simplified
    fn_cnf,           \* its argument cnf
    fn_literal,       \* its argument literal
    fn_out,           \* the cnf it returned
    fn_removed        \* the set of removed literals simplify returned

search_vars ==
    <<pc, cnf, literals, satisfied, solution, backtrack_count,
      recursion_count, stack, ret>>
fn_vars == <<fn_pc, fn_cnf, fn_literal, fn_out, fn_removed>>
vars == <<search_vars, fn_vars>>

\* A live call of backtrack: its locals and where it is.
Frame(c, pa, at, lit) ==
    [cnf |-> c, partial_assignment |-> pa, at |-> at, literal |-> lit]

Top == stack[Len(stack)]
Pop == SubSeq(stack, 1, Len(stack) - 1)
SetTop(f) == [stack EXCEPT ![Len(stack)] = f]

HasEmptyClause(c) == \E i \in 1..Len(c) : Len(c[i]) = 0

\* Solver.__init__ and DPLL.__init__
SolverInit(c) ==
    /\ cnf = c
    /\ literals = determine_literals(c)
    /\ satisfied = FALSE
    /\ solution = {}
    /\ backtrack_count = 0
    /\ recursion_count = 0

SearchIdle ==
    /\ pc = "idle"
    /\ SolverInit(<<>>)
    /\ stack = <<>>
    /\ ret = "none"

FnIdle ==
    /\ fn_pc = "idle"
    /\ fn_cnf = <<>>
    /\ fn_literal = 0
    /\ fn_out = <<>>
    /\ fn_removed = {}

Init ==
    /\ pc = "constructed"
    /\ \E c \in Formulas : SolverInit(c)
    /\ stack = <<>>
    /\ ret = "none"
    /\ FnIdle

\* solve -> start: the root call backtrack(self.cnf, set())
Start ==
    /\ pc = "constructed"
    /\ pc' = "running"
    /\ stack' = <<Frame(cnf, {}, "entry", 0)>>
    /\ UNCHANGED <<cnf, literals, satisfied, solution, backtrack_count,
                   recursion_count, ret>>
    /\ UNCHANGED fn_vars

\* backtrack, from its entry to the merge of the removed literals
Simplify ==
    /\ pc = "running"
    /\ stack # <<>>
    /\ Top.at = "entry"
    /\ recursion_count' = recursion_count + 1
    /\ \E order \in Perms(remove_literals(Top.cnf)) :
          LET r == simplify(Top.cnf, order)
          IN stack' = SetTop(Frame(r.cnf,
                                   Top.partial_assignment \cup r.removed,
                                   "simplified", 0))
    /\ UNCHANGED <<pc, cnf, literals, satisfied, solution, backtrack_count, ret>>
    /\ UNCHANGED fn_vars

\* if len(cnf) == 0: set_solution(partial_assignment); return True
Satisfied ==
    /\ pc = "running"
    /\ stack # <<>>
    /\ Top.at = "simplified"
    /\ Len(Top.cnf) = 0
    /\ solution' = Top.partial_assignment
    /\ ret' = "True"
    /\ stack' = Pop
    /\ UNCHANGED <<pc, cnf, literals, satisfied, backtrack_count, recursion_count>>
    /\ UNCHANGED fn_vars

\* A slip: the partial assignment is not copied and is updated in place, so
\* the caller's set holds what the returning call added.
Conflict_SharedAssignment ==
    /\ pc = "running"
    /\ stack # <<>>
    /\ Top.at = "simplified"
    /\ Len(Top.cnf) # 0
    /\ HasEmptyClause(Top.cnf)
    /\ backtrack_count' = backtrack_count + 1
    /\ ret' = "False"
    /\ stack' = IF Len(stack) = 1 THEN Pop
                ELSE [Pop EXCEPT ![Len(stack) - 1].partial_assignment =
                                     Top.partial_assignment]
    /\ UNCHANGED <<pc, cnf, literals, satisfied, solution, recursion_count>>
    /\ UNCHANGED fn_vars

\* if the cnf holds an empty clause: backtrack_count += 1; return False
Conflict ==
    /\ pc = "running"
    /\ stack # <<>>
    /\ Top.at = "simplified"
    /\ Len(Top.cnf) # 0
    /\ HasEmptyClause(Top.cnf)
    /\ backtrack_count' = backtrack_count + 1
    /\ ret' = "False"
    /\ stack' = Pop
    /\ UNCHANGED <<pc, cnf, literals, satisfied, solution, recursion_count>>
    /\ UNCHANGED fn_vars

\* The literals np.random.choice draws from.
Candidates(f) == literals \ f.partial_assignment

BranchReady ==
    /\ pc = "running"
    /\ stack # <<>>
    /\ Top.at = "simplified"
    /\ Len(Top.cnf) # 0
    /\ ~HasEmptyClause(Top.cnf)

\* A slip: the first recursive call is made on the picked literal itself.
Branch_LiteralFirst ==
    /\ BranchReady
    /\ Len(stack) < RecursionLimit
    /\ pc' = pc
    /\ \E literal \in Candidates(Top) :
          stack' = Append(
              SetTop(Frame(Top.cnf, Top.partial_assignment, "first", literal)),
              Frame(remove_literal(Top.cnf, literal),
                    Top.partial_assignment \cup {literal},
                    "entry", 0))
    /\ ret' = "none"
    /\ UNCHANGED <<cnf, literals, satisfied, solution, backtrack_count,
                   recursion_count>>
    /\ UNCHANGED fn_vars

\* Pick a random literal and make the first recursive call, on its negation.
\* np.random.choice raises ValueError on an empty list.
Branch ==
    /\ BranchReady
    /\ Len(stack) < RecursionLimit
    /\ IF Candidates(Top) = {}
       THEN /\ pc' = "ValueError"
            /\ stack' = stack
       ELSE /\ pc' = pc
            /\ \E literal \in Candidates(Top) :
                  stack' = Append(
                      SetTop(Frame(Top.cnf, Top.partial_assignment, "first", literal)),
                      Frame(remove_literal(Top.cnf, 0 - literal),
                            Top.partial_assignment \cup {0 - literal},
                            "entry", 0))
    /\ ret' = "none"
    /\ UNCHANGED <<cnf, literals, satisfied, solution, backtrack_count,
                   recursion_count>>
    /\ UNCHANGED fn_vars

\* The recursive call exceeds the interpreter's recursion limit.
RecursionError ==
    /\ BranchReady
    /\ Len(stack) >= RecursionLimit
    /\ pc' = "RecursionError"
    /\ UNCHANGED <<cnf, literals, satisfied, solution, backtrack_count,
                   recursion_count, stack, ret>>
    /\ UNCHANGED fn_vars

\* The first call returned True: return satisfied.
FirstSucceeded ==
    /\ pc = "running"
    /\ stack # <<>>
    /\ Top.at = "first"
    /\ ret = "True"
    /\ stack' = Pop
    /\ UNCHANGED <<pc, cnf, literals, satisfied, solution, backtrack_count,
                   recursion_count, ret>>
    /\ UNCHANGED fn_vars

\* A slip: the failure of the first call is returned, the second never made.
TrySecond_GiveUp ==
    /\ pc = "running"
    /\ stack # <<>>
    /\ Top.at = "first"
    /\ ret = "False"
    /\ stack' = Pop
    /\ UNCHANGED <<pc, cnf, literals, satisfied, solution, backtrack_count,
                   recursion_count, ret>>
    /\ UNCHANGED fn_vars

\* A slip: "if not satisfied" is left out, the second call is always made.
TrySecond_Unconditional ==
    /\ pc = "running"
    /\ stack # <<>>
    /\ Top.at = "first"
    /\ ret # "none"
    /\ stack' = Append(
          SetTop(Frame(Top.cnf, Top.partial_assignment, "second", Top.literal)),
          Frame(remove_literal(Top.cnf, Top.literal),
                Top.partial_assignment \cup {Top.literal},
                "entry", 0))
    /\ ret' = "none"
    /\ UNCHANGED <<pc, cnf, literals, satisfied, solution, backtrack_count,
                   recursion_count>>
    /\ UNCHANGED fn_vars

\* if not satisfied: the second recursive call, on the picked literal.
TrySecond ==
    /\ pc = "running"
    /\ stack # <<>>
    /\ Top.at = "first"
    /\ ret = "False"
    /\ stack' = Append(
          SetTop(Frame(Top.cnf, Top.partial_assignment, "second", Top.literal)),
          Frame(remove_literal(Top.cnf, Top.literal),
                Top.partial_assignment \cup {Top.literal},
                "entry", 0))
    /\ ret' = "none"
    /\ UNCHANGED <<pc, cnf, literals, satisfied, solution, backtrack_count,
                   recursion_count>>
    /\ UNCHANGED fn_vars

\* return satisfied, after the second call
SecondReturned ==
    /\ pc = "running"
    /\ stack # <<>>
    /\ Top.at = "second"
    /\ ret # "none"
    /\ stack' = Pop
    /\ UNCHANGED <<pc, cnf, literals, satisfied, solution, backtrack_count,
                   recursion_count, ret>>
    /\ UNCHANGED fn_vars

\* solve: self.satisfied = self.start()
Finish ==
    /\ pc = "running"
    /\ stack = <<>>
    /\ ret # "none"
    /\ satisfied' = (ret = "True")
    /\ pc' = "done"
    /\ UNCHANGED <<cnf, literals, solution, backtrack_count, recursion_count,
                   stack, ret>>
    /\ UNCHANGED fn_vars

\* --------------------------------------- formula analysis, called directly
FnInit ==
    /\ SearchIdle
    /\ fn_pc = "input"
    /\ fn_cnf \in FnFormulas
    /\ fn_literal = 0
    /\ fn_out = <<>>
    /\ fn_removed = {}

\* A call remove_literal(cnf, literal)
FnRemoveLiteral ==
    /\ fn_pc = "input"
    /\ \E literal \in Lits :
          /\ fn_literal' = literal
          /\ fn_out' = remove_literal(fn_cnf, literal)
    /\ fn_pc' = "removed"
    /\ UNCHANGED <<fn_cnf, fn_removed>>
    /\ UNCHANGED search_vars

\* A call simplify(cnf)
FnSimplify ==
    /\ fn_pc = "input"
    /\ \E order \in Perms(remove_literals(fn_cnf)) :
          LET r == simplify(fn_cnf, order)
          IN /\ fn_out' = r.cnf
             /\ fn_removed' = r.removed
    /\ fn_pc' = "simplified"
    /\ UNCHANGED <<fn_cnf, fn_literal>>
    /\ UNCHANGED search_vars

\* The returned formula is the argument of the next call, as in backtrack.
FnReuse ==
    /\ fn_pc \in {"removed", "simplified"}
    /\ fn_pc' = "input"
    /\ fn_cnf' = fn_out
    /\ fn_literal' = 0
    /\ fn_out' = <<>>
    /\ fn_removed' = {}
    /\ UNCHANGED search_vars

FnNext ==
    \/ FnRemoveLiteral
    \/ FnSimplify
    \/ FnReuse

FnSpec == FnInit /\ [][FnNext]_vars

Next ==
    \/ Start
    \/ Simplify
    \/ Satisfied
    \/ Conflict
    \/ Branch
    \/ RecursionError
    \/ FirstSucceeded
    \/ TrySecond
    \/ SecondReturned
    \/ Finish

Spec == Init /\ [][Next]_vars

\* solve runs to its end: nothing suspends the interpreter between two steps.
FairSpec == Init /\ [][Next]_vars /\ WF_vars(Next)

\* ------------------------------------------------------------- properties
Abs(l) == IF l < 0 THEN 0 - l ELSE l

\* The variables occurring in formula f.
VariablesOf(f) ==
    {v \in Vars : \E i \in 1..Len(f) : \E k \in 1..Len(f[i]) : Abs(f[i][k]) = v}

\* Some truth assignment to the variables of f satisfies every clause of f:
\* T is the set of the variables set true.
BruteForceSatisfiable(f) ==
    \E T \in SUBSET VariablesOf(f) :
        \A i \in 1..Len(f) : \E k \in 1..Len(f[i]) :
            \/ f[i][k] > 0 /\ f[i][k] \in T
            \/ f[i][k] < 0 /\ (0 - f[i][k]) \notin T

\* A set of literals holding a literal together with its negation.
HasComplementaryPair(A) == \E l \in A : (0 - l) \in A

\* C1: when solve ended with satisfied = true, every clause of the original
\* formula contains at least one literal of the returned solution.
C1_Soundness ==
    (pc = "done" /\ satisfied) =>
        \A i \in 1..Len(cnf) : \E k \in 1..Len(cnf[i]) : cnf[i][k] \in solution

\* A satisfied run that branched, on a formula of several clauses.
C1_Witness ==
    /\ pc = "done"
    /\ satisfied
    /\ Len(cnf) >= 2
    /\ recursion_count >= 2

\* C2: when solve ended with satisfied = false, no truth assignment to the
\* variables of the original formula satisfies all its clauses.
C2_Completeness ==
    (pc = "done" /\ ~satisfied) => ~BruteForceSatisfiable(cnf)

\* An unsatisfied run in which both branches of a choice ended in a conflict.
C2_Witness ==
    /\ pc = "done"
    /\ ~satisfied
    /\ backtrack_count >= 2
    /\ recursion_count >= 3

\* C3, as claimed: when solve ended with satisfied = true, the solution holds
\* exactly one literal for every variable of the original formula.
C3_Totality ==
    (pc = "done" /\ satisfied) =>
        \A v \in VariablesOf(cnf) : Cardinality(solution \cap {v, 0 - v}) = 1

\* C3, amended: when solve ended with satisfied = true, the solution holds at
\* most one literal for every variable of the original formula (none with both
\* polarities, some possibly with neither) and only literals of its variables.
C3_AtMostOnePolarity ==
    (pc = "done" /\ satisfied) =>
        /\ \A v \in VariablesOf(cnf) : Cardinality(solution \cap {v, 0 - v}) <= 1
        /\ \A l \in solution : Abs(l) \in VariablesOf(cnf)

\* A satisfied run whose solution leaves a variable of the formula undecided.
C3_Witness ==
    /\ pc = "done"
    /\ satisfied
    /\ \E v \in VariablesOf(cnf) : solution \cap {v, 0 - v} = {}
    /\ solution # {}

\* C4: whatever the random choices, the search started by solve eventually
\* returns, with success or with failure.
C4_Termination == <>(pc = "done")

\* C5: the number of nested backtrack calls below the root never exceeds the
\* number of distinct variables of the original formula.
C5_DepthBound ==
    stack # <<>> => Len(stack) - 1 <= Cardinality(VariablesOf(cnf))

\* C6: the verdict of a terminating run is the same whatever the random
\* choices were: it is the satisfiability of the formula, which is a function
\* of the formula alone.
C6_VerdictDeterministic ==
    pc = "done" => (satisfied <=> BruteForceSatisfiable(cnf))

\* A finished run that made random choices at two Branch steps at least.
C6_Witness ==
    /\ pc = "done"
    /\ recursion_count >= 3
    /\ Cardinality(literals) >= 3

\* C10: at the entry of every backtrack call, and after the removed literals
\* of simplify are merged, the partial assignment of the call never holds a
\* literal together with its negation.
C10_PartialAssignmentConsistent ==
    \A i \in 1..Len(stack) :
        stack[i].at \in {"entry", "simplified"} =>
            ~HasComplementaryPair(stack[i].partial_assignment)

\* Formula f holds two unit clauses of complementary literals.
HasComplementaryUnits(f) ==
    \E i, j \in 1..Len(f) :
        Len(f[i]) = 1 /\ Len(f[j]) = 1 /\ f[i][1] = 0 - f[j][1]

\* C7, as claimed: simplify's formula is the one remove_literal yields over
\* the removed set in every order of that set.
C7_OrderInvariance ==
    fn_pc = "simplified" =>
        \A order \in Perms(fn_removed) : RemoveAll(fn_cnf, order) = fn_out

\* C7, amended: for a formula without two complementary unit clauses,
\* simplify's formula is the one remove_literal yields over the removed set
\* in every order of that set.
C7_OrderInvarianceWithoutComplementaryUnits ==
    (fn_pc = "simplified" /\ ~HasComplementaryUnits(fn_cnf)) =>
        \A order \in Perms(fn_removed) : RemoveAll(fn_cnf, order) = fn_out

\* simplify removed several literals, none complementary, and left clauses.
C7_Witness ==
    /\ fn_pc = "simplified"
    /\ ~HasComplementaryUnits(fn_cnf)
    /\ Cardinality(fn_removed) >= 2
    /\ fn_out # <<>>
    /\ fn_out # fn_cnf

\* Formula f has no clause of length 1 and no literal whose negation is absent.
NoUnitNoPure(f) ==
    /\ \A i \in 1..Len(f) : Len(f[i]) # 1
    /\ \A i \in 1..Len(f) : \A k \in 1..Len(f[i]) :
          \E j \in 1..Len(f) : \E m \in 1..Len(f[j]) : f[j][m] = 0 - f[i][k]

\* C8: for a formula with no clause of length 1 and no literal whose negation
\* is absent, simplify returns the formula unchanged and an empty removed set.
C8_SimplifyFixedPoint ==
    (fn_pc = "simplified" /\ NoUnitNoPure(fn_cnf)) =>
        /\ fn_out = fn_cnf
        /\ fn_removed = {}

\* simplify was called on such a formula of several non-empty clauses.
C8_Witness ==
    /\ fn_pc = "simplified"
    /\ NoUnitNoPure(fn_cnf)
    /\ Len(fn_cnf) >= 2
    /\ \E i \in 1..Len(fn_cnf) : Len(fn_cnf[i]) >= 2

RECURSIVE Delete(_, _)
\* Clause c with every occurrence of literal m deleted.
Delete(c, m) ==
    IF c = <<>> THEN <<>>
    ELSE IF Head(c) = m THEN Delete(Tail(c), m)
    ELSE <<Head(c)>> \o Delete(Tail(c), m)

\* The positions of the clauses of f that do not contain literal l.
Kept(f, l) ==
    {i \in 1..Len(f) : \A k \in 1..Len(f[i]) : f[i][k] # l}

\* The j-th smallest element of a set of numbers.
Nth(S, j) == CHOOSE i \in S : Cardinality({k \in S : k <= i}) = j

\* C9: remove_literal(f, l) is the clauses of f that do not contain l, in
\* their order, each with every occurrence of -l deleted: no clause of the
\* result contains l or -l, and a clause of only -l survives as an empty one.
C9_RemoveLiteral ==
    fn_pc = "removed" =>
        LET keep == Kept(fn_cnf, fn_literal)
        IN /\ Len(fn_out) = Cardinality(keep)
           /\ \A j \in 1..Len(fn_out) :
                 /\ fn_out[j] = Delete(fn_cnf[Nth(keep, j)], 0 - fn_literal)
                 /\ \A k \in 1..Len(fn_out[j]) :
                       fn_out[j][k] \notin {fn_literal, 0 - fn_literal}

\* remove_literal dropped a clause holding l and emptied a clause of only -l.
C9_Witness ==
    /\ fn_pc = "removed"
    /\ \E i \in 1..Len(fn_cnf) : fn_literal \in Range(fn_cnf[i])
    /\ \E i \in 1..Len(fn_cnf) :
          Len(fn_cnf[i]) >= 2 /\ Range(fn_cnf[i]) = {0 - fn_literal}
    /\ \E j \in 1..Len(fn_out) : fn_out[j] = <<>>
    /\ \E j \in 1..Len(fn_out) : fn_out[j] # <<>>

\* C11: at every Branch step neither the picked literal nor its negation is
\* in the partial assignment of the call at the moment of the pick. A call
\* that branched keeps the assignment and the literal of its pick.
C11_BranchOnUnassigned ==
    \A i \in 1..Len(stack) :
        stack[i].at \in {"first", "second"} =>
            /\ stack[i].literal \notin stack[i].partial_assignment
            /\ (0 - stack[i].literal) \notin stack[i].partial_assignment

\* This step starts a recursive call of backtrack.
CallStep == Len(stack') = Len(stack) + 1

\* The call started by this step gets remove_literal(formula, l) and the
\* caller's partial assignment extended with l, both left as the caller has them.
CallCommits(l) ==
    /\ stack'[Len(stack')].cnf = remove_literal(Top.cnf, l)
    /\ stack'[Len(stack')].partial_assignment = Top.partial_assignment \cup {l}
    /\ stack'[Len(stack)].cnf = Top.cnf
    /\ stack'[Len(stack)].partial_assignment = Top.partial_assignment

\* The literal the calling frame holds as picked, after the step.
Picked == stack'[Len(stack)].literal

\* C12, as claimed: with x the variable of the pick, the first recursive call
\* commits the negative literal -x, and the call that commits x is made
\* afterwards and only if the first call returned failure.
C12_NegativeFirst ==
    [][(pc = "running" /\ stack # <<>> /\ CallStep) =>
          \/ Top.at = "simplified" /\ CallCommits(0 - Abs(Picked))
          \/ Top.at = "first" /\ ret = "False" /\ Picked = Top.literal
                /\ CallCommits(Abs(Picked))]_vars

\* C12, amended: the first recursive call commits the negation of the picked
\* literal, and the call that commits the picked literal is made afterwards
\* and only if the first call returned failure.
C12_NegationOfPickFirst ==
    [][(pc = "running" /\ stack # <<>> /\ CallStep) =>
          \/ Top.at = "simplified" /\ CallCommits(0 - Picked)
          \/ Top.at = "first" /\ ret = "False" /\ Picked = Top.literal
                /\ CallCommits(Picked)]_vars

\* The second call of a Branch step whose picked literal is negative is running.
C12_Witness ==
    \E i \in 1..Len(stack) :
        /\ stack[i].at = "second"
        /\ stack[i].literal < 0
        /\ i < Len(stack)
        /\ stack[i].literal \in stack[i + 1].partial_assignment

\* C13: once a call has recorded the solution and returned True, the solution
\* is never written again, no call is started, no conflict is counted, every
\* pending call returns True in its turn and solve ends with satisfied = true;
\* the solution is written only by a call whose formula is empty, as its
\* partial assignment.
C13_SolutionFinal ==
    [][/\ ret = "True" =>
             /\ ret' = "True"
             /\ solution' = solution
             /\ backtrack_count' = backtrack_count
             /\ recursion_count' = recursion_count
             /\ stack # <<>> => stack' = Pop
             /\ stack = <<>> => (pc' = "done" /\ satisfied')
       /\ solution' # solution =>
             /\ ret # "True"
             /\ ret' = "True"
             /\ Top.at = "simplified"
             /\ Len(Top.cnf) = 0
             /\ solution' = Top.partial_assignment]_vars

\* The solution is recorded, the successful call has returned True, and the
\* pending call it returns to is in its second recursive call.
C13_Witness ==
    /\ ret = "True"
    /\ stack # <<>>
    /\ solution # {}
    /\ Top.at = "second"

\* C14: a call whose formula holds two complementary unit clauses ends in the
\* conflict: whatever the order of simplify, its simplified formula is not
\* empty and holds an empty clause, and a call in that state counts a
\* backtrack and returns False, records no solution and starts no call.
C14_ComplementaryUnitsConflict ==
    [][/\ (pc = "running" /\ stack # <<>> /\ Top.at = "entry"
              /\ HasComplementaryUnits(Top.cnf)) =>
             /\ Len(stack') = Len(stack)
             /\ stack'[Len(stack')].at = "simplified"
             /\ Len(stack'[Len(stack')].cnf) # 0
             /\ HasEmptyClause(stack'[Len(stack')].cnf)
       /\ (pc = "running" /\ stack # <<>> /\ Top.at = "simplified"
              /\ Len(Top.cnf) # 0 /\ HasEmptyClause(Top.cnf)) =>
             /\ stack' = Pop
             /\ ret' = "False"
             /\ solution' = solution
             /\ backtrack_count' = backtrack_count + 1]_vars

\* A call has merged two complementary unit literals and holds a formula with
\* an empty clause and further clauses.
C14_Witness ==
    /\ pc = "running"
    /\ stack # <<>>
    /\ Top.at = "simplified"
    /\ HasEmptyClause(Top.cnf)
    /\ Len(Top.cnf) >= 2
    /\ HasComplementaryPair(Top.partial_assignment)

\* Literal l occurs in every clause of the non-empty formula f.
InEveryClause(f, l) ==
    /\ Len(f) > 0
    /\ \A i \in 1..Len(f) : l \in Range(f[i])

\* C15, as claimed: for a non-empty formula with a literal in every clause,
\* one call of simplify returns the empty formula.
C15_CommonLiteralCollapse ==
    (fn_pc = "simplified" /\ \E l \in Lits : InEveryClause(fn_cnf, l)) =>
        fn_out = <<>>

\* C15, amended: for a non-empty formula with a literal in every clause whose
\* negation is in no clause, one call of simplify returns the empty formula.
C15_CommonPureLiteralCollapse ==
    (fn_pc = "simplified"
        /\ \E l \in Lits :
              /\ InEveryClause(fn_cnf, l)
              /\ \A i \in 1..Len(fn_cnf) : (0 - l) \notin Range(fn_cnf[i])) =>
        fn_out = <<>>

\* simplify emptied a formula of several clauses, not all units, that share
\* a literal whose negation is absent, and that hold other variables too.
C15_Witness ==
    /\ fn_pc = "simplified"
    /\ fn_out = <<>>
    /\ Len(fn_cnf) >= 2
    /\ \E i \in 1..Len(fn_cnf) : Len(fn_cnf[i]) >= 2
    /\ Cardinality(VariablesOf(fn_cnf)) >= 2
    /\ \E l \in Lits :
          /\ InEveryClause(fn_cnf, l)
          /\ \A i \in 1..Len(fn_cnf) : (0 - l) \notin Range(fn_cnf[i])

\* C16: no step changes the formula or the partial assignment of a call that
\* is past its simplify step, so a call that made its first recursive call
\* builds the second from what it held before the first; self.cnf and
\* self.literals stay as computed at construction.
C16_CopyOnBranch ==
    [][/\ \A i \in 1..Len(stack) :
              (i <= Len(stack') /\ stack[i].at \in {"simplified", "first", "second"}) =>
                  /\ stack'[i].cnf = stack[i].cnf
                  /\ stack'[i].partial_assignment = stack[i].partial_assignment
       /\ cnf' = cnf
       /\ literals' = literals
       /\ literals = determine_literals(cnf)]_vars

\* A first recursive call that assigned further literals has failed and the
\* second one is running, below a call with a non-empty partial assignment.
C16_Witness ==
    \E i \in 1..Len(stack) :
        /\ stack[i].at = "second"
        /\ i < Len(stack)
        /\ stack[i].partial_assignment # {}
        /\ backtrack_count >= 1

\* C17: where the simplified formula is not empty and has no empty clause,
\* the set self.literals - partial_assignment the literal is drawn from is
\* not empty.
C17_CandidatesNotEmpty ==
    BranchReady => Candidates(Top) # {}

\* A call below the root is about to branch, with literals already assigned.
C17_Witness ==
    /\ BranchReady
    /\ Len(stack) >= 2
    /\ Cardinality(Top.partial_assignment) >= 1

\* C18: at the entry of every call and after its simplify step, no literal of
\* the call's partial assignment occurs in its formula, nor does its negation.
C18_AssignedEliminated ==
    \A i \in 1..Len(stack) :
        \A l \in stack[i].partial_assignment :
            \A j \in 1..Len(stack[i].cnf) :
                /\ l \notin Range(stack[i].cnf[j])
                /\ (0 - l) \notin Range(stack[i].cnf[j])

\* A call below the root is entered with literals assigned and clauses left.
C18_Witness ==
    /\ Len(stack) >= 2
    /\ Top.at = "entry"
    /\ Top.partial_assignment # {}
    /\ Len(Top.cnf) >= 2
    /\ ~HasEmptyClause(Top.cnf)

\* C19: a call that reaches the satisfied state (its simplified formula is
\* empty) holds a partial assignment with no literal beside its negation.
C19_RecordedSolutionConsistent ==
    \A i \in 1..Len(stack) :
        (stack[i].at = "simplified" /\ Len(stack[i].cnf) = 0) =>
            ~HasComplementaryPair(stack[i].partial_assignment)

\* A call reaches the satisfied state below a Branch step that picked a
\* literal whose negation was already assigned.
C19_Witness ==
    /\ pc = "running"
    /\ stack # <<>>
    /\ Top.at = "simplified"
    /\ Len(Top.cnf) = 0
    /\ \E i \in 1..(Len(stack) - 1) :
          (0 - stack[i].literal) \in stack[i].partial_assignment

====
